---- MODULE Spec2Model ----
(***************************************************************************)
(* Model of the MAS metadata API gateway (mas/api/api.go): the request     *)
(* handler with its memcache read-through path, the flag dispatcher, the   *)
(* nullif()/string_to_array() argument coercion of the SQL call templates  *)
(* and the JSON error formatter.                                           *)
(*                                                                         *)
(* Text is a sequence of tokens, one per character where the characters    *)
(* matter (<<"a", ",", "b">> is the string "a,b") and one per fixed phrase *)
(* otherwise; a response body and a cached value are such sequences.       *)
(* Query-string keys are atomic strings.                                   *)
(***************************************************************************)
EXTENDS Integers, Sequences, FiniteSets, TLC

VARIABLES
    mc,        \* TRUE iff the memcache client is configured (mc != nil)
    cache,     \* the memcache server: fingerprint -> stored bytes
    table,     \* the backend's ows_cache relation: <<gpath, query>> -> value
    h,         \* one in-flight handler invocation per server goroutine
    nreq,      \* requests accepted so far
    last,      \* the most recently returned invocation
    written,   \* every mc.Set that took effect, with the request that issued it
    refTable   \* ows_cache relation of the same deployment run with mc == nil

vars == <<mc, cache, table, h, nreq, last, written, refTable>>

\* ------------------------------------------------------------------ bounds
NumProcs == 2
MaxRequests == 2
MaxSeqRequests == 3
MaxParams == 2

Procs == 1..NumProcs

\* ------------------------------------------------------------------ text
DQ == "\""
BS == "\\"
Digits == {"0", "1", "2", "3", "4", "5", "6", "7", "8", "9"}

RECURSIVE Flatten(_)
Flatten(ss) == IF ss = <<>> THEN <<>> ELSE Head(ss) \o Flatten(Tail(ss))

\* ------------------------------------------------------------------ request
\* request.URL.Path, the raw query string as its sequence of key=value pairs,
\* and the pairs of a POST form body (empty for a GET).
GPath == <<"/", "g">>

Flags == {"intersects", "timestamps", "extents", "list_root_gpath",
          "list_sub_gpath", "generate_layers", "put_ows_cache", "get_ows_cache"}

NoReq == [path |-> <<>>, query |-> <<>>, body |-> <<>>]

\* request.URL.RequestURI(): path and raw query, in the order sent. The body
\* is not part of it.
RequestURI(req) == <<req.path, req.query>>

\* hex.EncodeToString(md5.Sum(uri)): MD5 is taken as collision-free on the
\* request URIs of the model, so the digest is a tagged copy of its input.
Md5Hex(uri) == <<"md5", uri[1], uri[2]>>

\* The values of every pair of `pairs` whose key is k, in order.
ValuesOf(pairs, k) ==
    LET hit == SelectSeq(pairs, LAMBDA pr : pr[1] = k)
    IN  [i \in 1..Len(hit) |-> hit[i][2]]

\* request.URL.Query(): the map from each key present to its values.
UrlQuery(q) == [k \in {q[i][1] : i \in DOMAIN q} |-> ValuesOf(q, k)]

\* request.FormValue(name): first value of the parsed form, in which body
\* parameters precede query-string ones; "" when the name is absent.
FormValue(req, name) ==
    LET form == ValuesOf(req.body, name) \o ValuesOf(req.query, name)
    IN  IF form = <<>> THEN <<>> ELSE form[1]

\* ------------------------------------------------------------------ dispatch
\* The if / else-if chain on query[flag] presence.
DispatchSwapped(query) ==
    IF "timestamps" \in DOMAIN query THEN "timestamps"
    ELSE IF "intersects" \in DOMAIN query THEN "intersects"
    ELSE IF "extents" \in DOMAIN query THEN "extents"
    ELSE IF "list_root_gpath" \in DOMAIN query THEN "list_root_gpath"
    ELSE IF "list_sub_gpath" \in DOMAIN query THEN "list_sub_gpath"
    ELSE IF "generate_layers" \in DOMAIN query THEN "generate_layers"
    ELSE IF "put_ows_cache" \in DOMAIN query THEN "put_ows_cache"
    ELSE IF "get_ows_cache" \in DOMAIN query THEN "get_ows_cache"
    ELSE "unknown"

Dispatch(query) ==
    IF "intersects" \in DOMAIN query THEN "intersects"
    ELSE IF "timestamps" \in DOMAIN query THEN "timestamps"
    ELSE IF "extents" \in DOMAIN query THEN "extents"
    ELSE IF "list_root_gpath" \in DOMAIN query THEN "list_root_gpath"
    ELSE IF "list_sub_gpath" \in DOMAIN query THEN "list_sub_gpath"
    ELSE IF "generate_layers" \in DOMAIN query THEN "generate_layers"
    ELSE IF "put_ows_cache" \in DOMAIN query THEN "put_ows_cache"
    ELSE IF "get_ows_cache" \in DOMAIN query THEN "get_ows_cache"
    ELSE "unknown"

\* ------------------------------------------------------------------ parameters
FromPath == [src |-> "path", name |-> "", type |-> "text"]
FromForm(name, type) == [src |-> "form", name |-> name, type |-> type]

\* The placeholders $1..$n of each call template with the Go expression bound
\* to each and the SQL type it is cast to ("list" is string_to_array(.., ',')).
Parameters(op) ==
    CASE op = "intersects" ->
           << FromPath,
              FromForm("srs", "text"),
              FromForm("wkt", "text"),
              FromForm("nseg", "integer"),
              FromForm("time", "timestamptz"),
              FromForm("until", "timestamptz"),
              FromForm("namespace", "list"),
              FromForm("metadata", "text"),
              FromForm("identitytol", "float8"),
              FromForm("dptol", "float"),
              FromForm("limit", "int") >>
      [] op = "timestamps" ->
           << FromPath,
              FromForm("time", "timestamptz"),
              FromForm("until", "timestamptz"),
              FromForm("namespace", "list"),
              FromForm("token", "text") >>
      [] op = "extents" -> << FromPath, FromForm("namespace", "list") >>
      [] op = "list_root_gpath" -> << >>
      [] op = "list_sub_gpath" -> << FromPath >>
      [] op = "generate_layers" -> << FromPath >>
      [] op = "put_ows_cache" ->
           << FromPath, FromForm("query", "text"), FromForm("value", "jsonb") >>
      [] op = "get_ows_cache" -> << FromPath, FromForm("query", "text") >>
      [] OTHER -> << >>

\* ------------------------------------------------------------------ coercion
\* A backend argument: SQL null, a text or typed scalar, a text array, or a
\* failed cast.
SqlNull == [t |-> "null", v |-> <<>>]
SqlText(s) == [t |-> "text", v |-> s]
SqlArray(a) == [t |-> "list", v |-> a]
SqlBad(s) == [t |-> "bad", v |-> s]

\* nullif($n, ''): null for the empty string, the string otherwise.
NullIfIdentity(s) == SqlText(s)
NullIf(s) == IF s = <<>> THEN SqlNull ELSE SqlText(s)

\* The fields of s between the delimiter d, in order (never fewer than one).
RECURSIVE Fields(_, _, _)
Fields(s, d, cur) ==
    IF s = <<>> THEN <<cur>>
    ELSE IF Head(s) = d THEN <<cur>> \o Fields(Tail(s), d, <<>>)
    ELSE Fields(Tail(s), d, Append(cur, Head(s)))

\* string_to_array(x, ','): null for null, the empty array for the empty
\* string, the comma-delimited fields otherwise.
StringToArray(x) ==
    IF x.t = "null" THEN SqlNull
    ELSE IF x.v = <<>> THEN SqlArray(<<>>)
    ELSE SqlArray(Fields(x.v, ",", <<>>))

\* Input syntax of the non-text types, reduced to the digit strings: a value
\* made of digits is accepted by every cast of the templates, any other
\* non-empty value is rejected by each of them.
WellFormed(s) == s # <<>> /\ \A i \in DOMAIN s : s[i] \in Digits

\* x::type
Cast(x, type) ==
    IF x.t = "null" \/ type = "text" THEN x
    ELSE IF WellFormed(x.v) THEN x
    ELSE SqlBad(x.v)

\* One placeholder of a template, as the backend function receives it.
Coerce(raw, type) ==
    IF type = "list" THEN StringToArray(NullIf(raw)) ELSE Cast(NullIf(raw), type)

RawValue(req, param) ==
    IF param.src = "path" THEN req.path ELSE FormValue(req, param.name)

Args(req, op) ==
    [i \in DOMAIN Parameters(op) |-> Coerce(RawValue(req, Parameters(op)[i]), Parameters(op)[i].type)]

\* ------------------------------------------------------------------ backend
\* The JSON text of one argument inside a result.
SerArg(a) ==
    IF a.t = "null" THEN <<"null">>
    ELSE IF a.t = "list"
         THEN <<"[">> \o Flatten([i \in DOMAIN a.v |-> <<"'">> \o a.v[i] \o <<"'">>]) \o <<"]">>
         ELSE <<"'">> \o a.v \o <<"'">>

\* The mas_* SQL functions. The six query functions return a JSON text that
\* depends on their arguments alone; mas_put_ows_cache records value under
\* (gpath, query) and mas_get_ows_cache returns what is recorded there.
MasResult(op, args, tbl) ==
    IF op = "put_ows_cache"
    THEN [payload |-> <<"{", "put_ows_cache", "}">>,
          table   |-> (<<SerArg(args[1]), SerArg(args[2])>> :> SerArg(args[3])) @@ tbl]
    ELSE IF op = "get_ows_cache"
    THEN LET key == <<SerArg(args[1]), SerArg(args[2])>>
         IN  [payload |-> <<"{", "get_ows_cache">>
                          \o (IF key \in DOMAIN tbl THEN tbl[key] ELSE <<"null">>)
                          \o <<"}">>,
              table   |-> tbl]
    ELSE [payload |-> <<"{", op>> \o Flatten([i \in DOMAIN args |-> SerArg(args[i])]) \o <<"}">>,
          table   |-> tbl]

BadArgs(args) == {i \in DOMAIN args : args[i].t = "bad"}

\* err of db.QueryRow(..).Scan(&payload) when it is not nil: the cast of a
\* malformed value fails inside the statement, and any call can fail on the
\* connection.
CastErrText(v) == <<"pq: invalid input syntax: ", DQ>> \o v \o <<DQ>>
ConnErrText == <<"pq: connection refused">>

BackendErrors(args) ==
    {ConnErrText} \cup {CastErrText(args[i].v) : i \in BadArgs(args)}

\* ------------------------------------------------------------------ responses
NoResponse == [status |-> 0, ctype |-> "", body |-> <<>>]

\* response.Write(bytes) with the Content-Type set at the top of the handler
\* and no explicit status.
WriteBody(bytes) == [status |-> 200, ctype |-> "application/json", body |-> bytes]

\* fmt's %q: the text in double quotes, with \ and " escaped by a backslash.
RECURSIVE Escape(_)
Escape(s) ==
    IF s = <<>> THEN <<>>
    ELSE (IF Head(s) \in {DQ, BS} THEN <<BS, Head(s)>> ELSE <<Head(s)>>) \o Escape(Tail(s))

GoQuote(s) == <<DQ>> \o Escape(s) \o <<DQ>>

httpJSONErrorUnescaped(text, status) ==
    [status |-> status,
     ctype  |-> "text/plain; charset=utf-8",
     body   |-> <<"{ ", DQ, "error", DQ, ": ", DQ>> \o text \o <<DQ, " }", "\n">>]

\* http.Error(response, fmt.Sprintf(`{ "error": %q }`, err.Error()), status):
\* http.Error replaces the Content-Type and ends the text with a newline.
httpJSONError(text, status) ==
    [status |-> status,
     ctype  |-> "text/plain; charset=utf-8",
     body   |-> <<"{ ", DQ, "error", DQ, ": ">> \o GoQuote(text) \o <<" }", "\n">>]

\* errors.New("unknown operation; currently supported: ?intersects, ?timestamps, ?extents")
UnknownOpText ==
    <<"unknown operation; currently supported: ",
      "?intersects", ", ", "?timestamps", ", ", "?extents">>

\* The handler with mc == nil run to completion on req against tbl, the
\* backend call itself not failing on the connection.
NoCacheRun(req, tbl) ==
    LET op   == Dispatch(UrlQuery(req.query))
        args == Args(req, op)
        res  == MasResult(op, args, tbl)
    IN  IF op = "unknown"
        THEN [response |-> httpJSONError(UnknownOpText, 400), table |-> tbl]
        ELSE IF BadArgs(args) # {}
        THEN [response |-> httpJSONError(CastErrText(args[CHOOSE i \in BadArgs(args) : \A j \in BadArgs(args) : i <= j].v), 400),
              table |-> tbl]
        ELSE [response |-> WriteBody(res.payload), table |-> res.table]

\* ------------------------------------------------------------------ inputs
Q(k, v) == <<k, v>>

\* Requests offered to the running deployment by concurrent clients.
ConcurrentUris ==
    { [path |-> GPath, query |-> <<Q("get_ows_cache", <<>>), Q("query", <<"a">>)>>, body |-> <<>>],
      [path |-> GPath, query |-> <<Q("put_ows_cache", <<>>), Q("query", <<"a">>)>>, body |-> <<Q("value", <<"2">>)>>],
      [path |-> GPath, query |-> <<Q("extents", <<>>), Q("namespace", <<"a", ",", "b">>)>>, body |-> <<>>],
      [path |-> GPath, query |-> <<Q("timestamps", <<>>), Q("time", <<"a">>)>>, body |-> <<>>],
      [path |-> GPath, query |-> <<Q("limit", <<"1">>)>>, body |-> <<>>] }

\* Requests offered one at a time: the same, and a second POST to the URI of
\* the put_ows_cache request with another value in its body.
Uris ==
    ConcurrentUris \cup
    { [path |-> GPath, query |-> <<Q("put_ows_cache", <<>>), Q("query", <<"a">>)>>, body |-> <<Q("value", <<"1">>)>>] }

\* Requests offered to the dispatcher alone: every query string of at most
\* MaxParams pairs over these keys and values, with or without a form body.
FormNames == {"namespace", "nseg", "query"}
Values == {<<>>, <<"1">>, <<"a", ",", "1">>}
Bodies == {<<>>, <<Q("namespace", <<>>)>>}

SeqsUpTo(S, n) == UNION {[1..m -> S] : m \in 0..n}

AllRequests ==
    [path : {<<"/">>, GPath}, query : SeqsUpTo((Flags \cup FormNames) \X Values, MaxParams), body : Bodies]

\* ------------------------------------------------------------------ state
IdleH ==
    [pc |-> "idle", req |-> NoReq, hash |-> <<>>, op |-> "", args |-> <<>>,
     payload |-> <<>>, errText |-> <<>>, response |-> NoResponse, ref |-> NoResponse,
     src |-> "none", calls |-> 0, gets |-> 0, sets |-> 0, getKey |-> <<>>,
     getFault |-> FALSE, setFault |-> FALSE, stored |-> FALSE]

NoLast == [valid |-> FALSE, uri |-> RequestURI(NoReq), response |-> NoResponse,
           hit |-> FALSE, stored |-> FALSE]

\* main(): mc is set iff -memcache is given; nothing is cached or recorded.
Init ==
    /\ mc \in BOOLEAN
    /\ cache = <<>>
    /\ table = <<>>
    /\ refTable = <<>>
    /\ h = [p \in Procs |-> IdleH]
    /\ nreq = 0
    /\ last = NoLast
    /\ written = {}

\* The server hands req to a handler goroutine (goroutines are
\* interchangeable: the free one of least index takes it); the handler sets
\* the Content-Type and, with a cache client, computes the fingerprint.
Accept(p, req, max) ==
    /\ h[p].pc = "idle"
    /\ \A q \in 1..(p - 1) : h[q].pc # "idle"
    /\ nreq < max
    /\ nreq' = nreq + 1
    /\ h' = [h EXCEPT ![p] =
                [IdleH EXCEPT !.req = req,
                              !.hash = IF mc THEN Md5Hex(RequestURI(req)) ELSE <<>>,
                              !.pc = IF mc THEN "lookup" ELSE "dispatch"]]
    /\ UNCHANGED <<mc, cache, table, last, written, refTable>>

Receive(p) == \E req \in ConcurrentUris : Accept(p, req, MaxRequests)

LookupHitAnyItem(p) ==
    /\ h[p].pc = "lookup"
    /\ h[p].hash \in DOMAIN cache
    /\ \E k \in DOMAIN cache :
         h' = [h EXCEPT ![p].response = WriteBody(cache[k]), ![p].src = "cache",
                        ![p].gets = @ + 1, ![p].getKey = h[p].hash, ![p].pc = "done"]
    /\ UNCHANGED <<mc, cache, table, nreq, last, written, refTable>>

\* mc.Get(hash) returns the item: the cached bytes are the response.
LookupHit(p) ==
    /\ h[p].pc = "lookup"
    /\ h[p].hash \in DOMAIN cache
    /\ LET ref == NoCacheRun(h[p].req, refTable)
       IN  /\ h' = [h EXCEPT ![p].response = WriteBody(cache[h[p].hash]),
                             ![p].src = "cache",
                             ![p].gets = @ + 1,
                             ![p].getKey = h[p].hash,
                             ![p].ref = ref.response,
                             ![p].pc = "done"]
           /\ refTable' = ref.table
    /\ UNCHANGED <<mc, cache, table, nreq, last, written>>

\* mc.Get(hash) returns ErrCacheMiss.
LookupMiss(p) ==
    /\ h[p].pc = "lookup"
    /\ h[p].hash \notin DOMAIN cache
    /\ h' = [h EXCEPT ![p].gets = @ + 1, ![p].getKey = h[p].hash, ![p].pc = "dispatch"]
    /\ UNCHANGED <<mc, cache, table, nreq, last, written, refTable>>

LookupFaultSurfaced(p) ==
    /\ h[p].pc = "lookup"
    /\ h' = [h EXCEPT ![p].gets = @ + 1, ![p].getKey = h[p].hash, ![p].getFault = TRUE,
                      ![p].response = httpJSONError(<<"memcache: connect timeout">>, 400),
                      ![p].pc = "done"]
    /\ UNCHANGED <<mc, cache, table, nreq, last, written, refTable>>

\* mc.Get(hash) fails (server unreachable, timeout), whatever is stored.
LookupFault(p) ==
    /\ h[p].pc = "lookup"
    /\ h' = [h EXCEPT ![p].gets = @ + 1, ![p].getKey = h[p].hash, ![p].getFault = TRUE,
                      ![p].pc = "dispatch"]
    /\ UNCHANGED <<mc, cache, table, nreq, last, written, refTable>>

\* No flag of the chain is in the query: the final else.
CallUnsupported(p) ==
    /\ h[p].pc = "dispatch"
    /\ Dispatch(UrlQuery(h[p].req.query)) = "unknown"
    /\ h' = [h EXCEPT ![p].op = "unknown",
                      ![p].errText = UnknownOpText,
                      ![p].response = httpJSONError(UnknownOpText, 400),
                      ![p].ref = httpJSONError(UnknownOpText, 400),
                      ![p].src = "reject",
                      ![p].pc = "done"]
    /\ UNCHANGED <<mc, cache, table, nreq, last, written, refTable>>

CallErrorFallsThrough(p) ==
    /\ h[p].pc = "dispatch"
    /\ LET op   == Dispatch(UrlQuery(h[p].req.query))
           args == Args(h[p].req, op)
       IN  /\ op # "unknown"
           /\ \E e \in BackendErrors(args) :
                h' = [h EXCEPT ![p].op = op, ![p].args = args, ![p].calls = @ + 1,
                               ![p].errText = e,
                               ![p].response = httpJSONError(e, 400),
                               ![p].ref = httpJSONError(e, 400),
                               ![p].src = "backend",
                               ![p].pc = IF mc THEN "store" ELSE "done"]
    /\ UNCHANGED <<mc, cache, table, nreq, last, written, refTable>>

\* The selected call returns an error: err != nil.
CallError(p) ==
    /\ h[p].pc = "dispatch"
    /\ LET op   == Dispatch(UrlQuery(h[p].req.query))
           args == Args(h[p].req, op)
       IN  /\ op # "unknown"
           /\ \E e \in BackendErrors(args) :
                h' = [h EXCEPT ![p].op = op,
                               ![p].args = args,
                               ![p].calls = @ + 1,
                               ![p].errText = e,
                               ![p].response = httpJSONError(e, 400),
                               ![p].ref = httpJSONError(e, 400),
                               ![p].src = "backend",
                               ![p].pc = "done"]
    /\ UNCHANGED <<mc, cache, table, nreq, last, written, refTable>>

\* The selected call returns its JSON text, which is written as the response.
CallOk(p) ==
    /\ h[p].pc = "dispatch"
    /\ LET op   == Dispatch(UrlQuery(h[p].req.query))
           args == Args(h[p].req, op)
           res  == MasResult(op, args, table)
           ref  == NoCacheRun(h[p].req, refTable)
       IN  /\ op # "unknown"
           /\ BadArgs(args) = {}
           /\ h' = [h EXCEPT ![p].op = op,
                             ![p].args = args,
                             ![p].calls = @ + 1,
                             ![p].payload = res.payload,
                             ![p].response = WriteBody(res.payload),
                             ![p].ref = ref.response,
                             ![p].src = "backend",
                             ![p].pc = IF mc THEN "store" ELSE "done"]
           /\ table' = res.table
           /\ refTable' = ref.table
    /\ UNCHANGED <<mc, cache, nreq, last, written>>

\* mc.Set(&memcache.Item{Key: hash, Value: []byte(payload)}) takes effect.
StoreOk(p) ==
    /\ h[p].pc = "store"
    /\ cache' = (h[p].hash :> h[p].payload) @@ cache
    /\ written' = written \cup {[key |-> h[p].hash, value |-> h[p].payload,
                                 lookedUp |-> h[p].getKey, req |-> h[p].req,
                                 response |-> h[p].response]}
    /\ h' = [h EXCEPT ![p].sets = @ + 1, ![p].stored = TRUE, ![p].pc = "done"]
    /\ UNCHANGED <<mc, table, nreq, last, refTable>>

\* mc.Set fails; its error is not looked at.
StoreFault(p) ==
    /\ h[p].pc = "store"
    /\ h' = [h EXCEPT ![p].sets = @ + 1, ![p].setFault = TRUE, ![p].pc = "done"]
    /\ UNCHANGED <<mc, cache, table, nreq, last, written, refTable>>

\* The handler returns and the goroutine is free for the next request.
Return(p) ==
    /\ h[p].pc = "done"
    /\ h' = [h EXCEPT ![p] = IdleH]
    /\ UNCHANGED <<mc, cache, table, nreq, last, written, refTable>>

\* The memcache server drops an item (eviction, expiry, restart).
Evict(k) ==
    /\ k \in DOMAIN cache
    /\ cache' = [x \in DOMAIN cache \ {k} |-> cache[x]]
    /\ UNCHANGED <<mc, table, h, nreq, last, written, refTable>>

Work(p) ==
    \/ LookupHit(p)
    \/ LookupMiss(p)
    \/ LookupFault(p)
    \/ CallUnsupported(p)
    \/ CallError(p)
    \/ CallOk(p)
    \/ StoreOk(p)
    \/ StoreFault(p)

Next ==
    \/ \E p \in Procs : Receive(p)
    \/ \E p \in Procs : Work(p)
    \/ \E p \in Procs : Return(p)
    \/ \E k \in DOMAIN cache : Evict(k)

\* Handlers run concurrently, one per in-flight request.
Spec == Init /\ [][Next]_vars

\* One client sending one request at a time: the next is sent after the
\* previous has returned, and the client keeps the response it got last.
ReceiveSeq(p) ==
    /\ \A q \in Procs : h[q].pc = "idle"
    /\ \E req \in Uris : Accept(p, req, MaxSeqRequests)

ReturnSeq(p) ==
    /\ h[p].pc = "done"
    /\ last' = [valid |-> TRUE, uri |-> RequestURI(h[p].req), response |-> h[p].response,
                hit |-> h[p].src = "cache", stored |-> h[p].stored]
    /\ h' = [h EXCEPT ![p] = IdleH]
    /\ UNCHANGED <<mc, cache, table, nreq, written, refTable>>

NextSeq ==
    \/ \E p \in Procs : ReceiveSeq(p)
    \/ \E p \in Procs : Work(p)
    \/ \E p \in Procs : ReturnSeq(p)
    \/ \E k \in DOMAIN cache : Evict(k)

SpecSeq == Init /\ [][NextSeq]_vars

\* The dispatcher on its own: one handler invocation without a cache client,
\* on any request of AllRequests.
InitDispatch == Init /\ mc = FALSE

ReceiveAny(p) ==
    /\ nreq = 0
    /\ \E req \in AllRequests : Accept(p, req, 1)

NextDispatch ==
    \/ ReceiveAny(1)
    \/ CallUnsupported(1)
    \/ CallError(1)
    \/ CallOk(1)
    \/ Return(1)

SpecDispatch == InitDispatch /\ [][NextDispatch]_vars

\* ------------------------------------------------------------------ properties
Written(p) == h[p].response.status # 0
Done(p) == h[p].pc = "done"
Range(s) == {s[i] : i \in DOMAIN s}
FlagsIn(req) == {f \in Flags : \E i \in DOMAIN req.query : req.query[i][1] = f}

\* C1 as stated: with the cache enabled, a request for the URI of the request
\* that returned just before it gets the same bytes.
C1_SecondEqualsFirst ==
    \A p \in Procs :
        (mc /\ Done(p) /\ last.valid /\ last.uri = RequestURI(h[p].req))
            => h[p].response.body = last.response.body

\* C1, amended: when the second of two consecutive requests for one URI is
\* answered from the cache, and the first was answered from the cache or had
\* its payload stored, the second response's bytes equal the first's.
C1_HitReproducesFirst ==
    \A p \in Procs :
        (mc /\ Done(p) /\ last.valid /\ last.uri = RequestURI(h[p].req)
            /\ h[p].src = "cache" /\ (last.hit \/ last.stored))
            => h[p].response.body = last.response.body

C1_Witness ==
    \E p \in Procs :
        /\ mc /\ Done(p) /\ last.valid /\ last.uri = RequestURI(h[p].req)
        /\ h[p].src = "cache" /\ last.stored
        /\ Cardinality(DOMAIN cache) > 1

\* C2: every response of the deployment with a cache client is the response
\* the same requests produce with mc == nil, status and body.
C2_CacheIndependent ==
    \A p \in Procs : Written(p) => h[p].response = h[p].ref

\* C3: a put_ows_cache or get_ows_cache request is never looked up in the
\* cache, never answered from it and never stored in it.
C3_MutatorsBypassCache ==
    \A p \in Procs :
        Dispatch(UrlQuery(h[p].req.query)) \in {"put_ows_cache", "get_ows_cache"}
            => h[p].gets = 0 /\ h[p].sets = 0 /\ h[p].src # "cache"

\* C4: every store that took effect was issued by a request that succeeded,
\* under the fingerprint of its URI, which is the key it looked up, with the
\* payload it returned; every item in the cache is such a store; a request
\* that ended in an error issues no store; and an item leaves the cache only
\* in a step in which no handler moves.
C4_StoresAreSuccesses ==
    /\ \A e \in written :
         /\ e.response.status = 200
         /\ e.key = e.lookedUp
         /\ e.key = Md5Hex(RequestURI(e.req))
         /\ e.value = e.response.body
    /\ \A k \in DOMAIN cache : \E e \in written : e.key = k /\ e.value = cache[k]
    /\ \A p \in Procs : h[p].response.status = 400 => h[p].sets = 0 /\ Done(p)

C4_HandlerNeverDeletes ==
    (\E k \in DOMAIN cache : k \notin DOMAIN cache') => h' = h

C4_CacheLifecycle == [](C4_StoresAreSuccesses) /\ [][C4_HandlerNeverDeletes]_vars

C4_Witness ==
    /\ written # {}
    /\ \E p \in Procs : Done(p) /\ h[p].response.status = 400 /\ h[p].gets = 1

\* C5: a request that misses the cache makes exactly one backend call when a
\* flag is in its query string, to the operation of the first flag of
\* intersects, timestamps, extents, list_root_gpath, list_sub_gpath,
\* generate_layers, put_ows_cache, get_ows_cache that is present, wherever the
\* flag stands in the query string and whatever its value.
Priority ==
    <<"intersects", "timestamps", "extents", "list_root_gpath",
      "list_sub_gpath", "generate_layers", "put_ows_cache", "get_ows_cache">>

C5_FirstMatchInPriorityOrder ==
    \A p \in Procs :
        (Done(p) /\ FlagsIn(h[p].req) # {})
            => /\ h[p].calls = 1
               /\ \E i \in DOMAIN Priority :
                    /\ h[p].op = Priority[i]
                    /\ Priority[i] \in FlagsIn(h[p].req)
                    /\ \A j \in 1..(i - 1) : Priority[j] \notin FlagsIn(h[p].req)

C5_Witness ==
    \E p \in Procs :
        /\ Done(p) /\ h[p].calls = 1
        /\ Len(h[p].req.query) > 1
        /\ h[p].req.query[1][1] \in Flags
        /\ h[p].req.query[1][2] # <<>>
        /\ h[p].op # h[p].req.query[1][1]

\* C6: a request without a recognized flag gets a 400 whose message names the
\* flags the dispatcher accepts, and no backend call is made for it.
FlagToken(f) ==
    CASE f = "intersects" -> "?intersects"
      [] f = "timestamps" -> "?timestamps"
      [] f = "extents" -> "?extents"
      [] f = "list_root_gpath" -> "?list_root_gpath"
      [] f = "list_sub_gpath" -> "?list_sub_gpath"
      [] f = "generate_layers" -> "?generate_layers"
      [] f = "put_ows_cache" -> "?put_ows_cache"
      [] f = "get_ows_cache" -> "?get_ows_cache"

AcceptedFlags == {f \in Flags : Dispatch(UrlQuery(<<Q(f, <<>>)>>)) # "unknown"}

C6_ErrorNamesAcceptedFlags ==
    \A p \in Procs :
        (Done(p) /\ FlagsIn(h[p].req) = {})
            => /\ h[p].response.status = 400
               /\ h[p].calls = 0
               /\ {f \in Flags : FlagToken(f) \in Range(h[p].response.body)} = AcceptedFlags

\* C7: a handler whose cache lookup failed goes on as after a miss, and one
\* whose cache store failed keeps the success response it wrote: the response
\* is the backend's payload with status 200, or the 400 envelope of the
\* dispatcher's or the backend's error, never anything of the cache fault.
C7_CacheFaultsSuppressed ==
    \A p \in Procs :
        /\ h[p].getFault =>
             /\ h[p].pc \in {"dispatch", "store", "done"}
             /\ h[p].src # "cache"
             /\ Written(p) =>
                  \/ /\ h[p].calls = 1
                     /\ h[p].errText = <<>>
                     /\ h[p].response = WriteBody(h[p].payload)
                  \/ /\ h[p].calls = 1
                     /\ h[p].errText \in BackendErrors(h[p].args)
                     /\ h[p].response = httpJSONError(h[p].errText, 400)
                  \/ /\ h[p].calls = 0
                     /\ FlagsIn(h[p].req) = {}
                     /\ h[p].response = httpJSONError(UnknownOpText, 400)
        /\ h[p].setFault =>
             /\ Done(p)
             /\ h[p].calls = 1
             /\ h[p].errText = <<>>
             /\ h[p].response = WriteBody(h[p].payload)

C7_Witness ==
    \E p \in Procs :
        Done(p) /\ h[p].getFault /\ h[p].setFault /\ h[p].response.status = 200

\* C8: a backend error ends the request with status 400 and the envelope
\* { "error": <quoted text> } whose quoted text reads back as the backend's
\* error text; the handler made that one call, wrote no payload and issued no
\* store; and no request makes more than one backend call.
RECURSIVE Unquote(_)
Unquote(s) ==
    IF s = <<>> THEN <<>>
    ELSE IF Head(s) = BS /\ Len(s) > 1 THEN <<s[2]>> \o Unquote(Tail(Tail(s)))
    ELSE IF Head(s) \in {BS, DQ} THEN <<"<malformed>">>
    ELSE <<Head(s)>> \o Unquote(Tail(s))

EnvelopeText(body) ==
    IF /\ Len(body) >= 9
       /\ SubSeq(body, 1, 6) = <<"{ ", DQ, "error", DQ, ": ", DQ>>
       /\ SubSeq(body, Len(body) - 2, Len(body)) = <<DQ, " }", "\n">>
    THEN Unquote(SubSeq(body, 7, Len(body) - 3))
    ELSE <<"<malformed>">>

C8_BackendErrorSurfaced ==
    \A p \in Procs :
        /\ h[p].calls <= 1
        /\ (h[p].src = "backend" /\ h[p].errText # <<>>) =>
             /\ h[p].response.status = 400
             /\ EnvelopeText(h[p].response.body) = h[p].errText
             /\ h[p].payload = <<>>
             /\ h[p].calls = 1
             /\ h[p].sets = 0
             /\ Done(p)

C8_Witness ==
    \E p \in Procs :
        /\ Done(p) /\ h[p].src = "backend"
        /\ DQ \in Range(h[p].errText)
        /\ h[p].getFault

\* C9: in a backend call, an argument taken from a form value is null exactly
\* when the form value is the empty string, and an array argument is never
\* the empty array; the argument taken from the request path is the path, a
\* non-empty text, and never null.
C9_NullCoercion ==
    \A p \in Procs :
        h[p].calls = 1 =>
            \A i \in DOMAIN h[p].args :
                LET prm == Parameters(h[p].op)[i]
                    a   == h[p].args[i]
                IN  IF prm.src = "path"
                    THEN a.t = "text" /\ a.v = h[p].req.path /\ a.v # <<>>
                    ELSE /\ (a.t = "null") <=> (FormValue(h[p].req, prm.name) = <<>>)
                         /\ a.t = "null" => a.v = <<>>
                         /\ prm.type = "list" => (a.t = "null" \/ (a.t = "list" /\ a.v # <<>>))

C9_Witness ==
    \E p \in Procs :
        /\ h[p].calls = 1 /\ h[p].op = "intersects"
        /\ h[p].args[7].t = "list" /\ Len(h[p].args[7].v) = 2
        /\ h[p].args[4].t = "null"

\* C10: under any interleaving, the bytes cached under a fingerprint are the
\* payload the backend returns for the request that stored them.
C10_CachedValueIsBackendValue ==
    \A e \in written :
        e.key \in DOMAIN cache
            => cache[e.key] = NoCacheRun(e.req, table).response.body

====
